---- MODULE Spec2Model ----
(***************************************************************************)
(* Model of the C edition of Snowflake (src/src/c/snowflake.h,             *)
(* src/src/c/snowflake.c): the generator object, its constructor and       *)
(* destructor, snowflake_next_id as the source has it (lock, unlock, and   *)
(* the end of a value-returning function reached without a return), the    *)
(* clock reader snowflake_get_timestamp, and the bit-layout constants.     *)
(*                                                                         *)
(* A uint_fast64_t value is modelled by the set of its one bits, a subset  *)
(* of 0..63, so that shifts, masks, complements and wrap-around arithmetic *)
(* are those of a 64-bit unsigned integer.                                 *)
(***************************************************************************)
EXTENDS Integers, Sequences, FiniteSets, TLC

(***************************************************************************)
(* 64-bit unsigned arithmetic (snowflake.h: snowflake_id_t, uint_fast64_t) *)
(***************************************************************************)
WordBits == 64

BitIdx == 0 .. (WordBits - 1)

\* the 64-bit value of a small non-negative integer literal
ToU64(n) == {i \in 0 .. 30 : (n \div (2 ^ i)) % 2 = 1}

UINT_FAST64_MAX == BitIdx

ShiftLeft(a, k) == {i + k : i \in {j \in a : j + k < WordBits}}

ShiftRight(a, k) == {i - k : i \in {j \in a : j >= k}}

BitOr(a, b) == a \cup b

BitAnd(a, b) == a \cap b

BitNot(a) == BitIdx \ a

\* unsigned comparison: the highest bit where a and b differ is set in b
Less(a, b) == \E i \in b \ a : \A j \in (i + 1) .. (WordBits - 1) : (j \in a) <=> (j \in b)

LessEq(a, b) == a = b \/ Less(a, b)

BitAt(a, i) == IF i \in a THEN 1 ELSE 0

\* the carry into bit i of a + b + carry0: some lower bit generates a carry
\* (or carry0 enters) and every bit between propagates it
CarryInto(a, b, carry0, i) ==
    IF \/ \E j \in 0 .. (i - 1) : /\ j \in a
                                  /\ j \in b
                                  /\ \A k \in (j + 1) .. (i - 1) : k \in a \cup b
       \/ carry0 = 1 /\ \A k \in 0 .. (i - 1) : k \in a \cup b
    THEN 1 ELSE 0

AddWithCarry(a, b, carry0) ==
    {i \in BitIdx : (BitAt(a, i) + BitAt(b, i) + CarryInto(a, b, carry0, i)) % 2 = 1}

\* a + b modulo 2^64
Add(a, b) == AddWithCarry(a, b, 0)

\* a - b modulo 2^64
Sub(a, b) == AddWithCarry(a, BitNot(b), 1)

RECURSIVE MulBits(_, _)
MulBits(a, b) ==
    IF b = {} THEN {}
    ELSE LET i == CHOOSE x \in b : TRUE
         IN  Add(ShiftLeft(a, i), MulBits(a, b \ {i}))

\* a * b modulo 2^64
Mul(a, b) == MulBits(a, b)

(***************************************************************************)
(* SNOWFLAKE_CONSTANTS (snowflake.c:29-90)                                 *)
(***************************************************************************)
\* 1577836800000UL, 2020-01-01 00:00:00 GMT in milliseconds
SNOWFLAKE_EPOCH == Mul(ToU64(1577836800), ToU64(1000))

SNOWFLAKE_UNUSED_BITS == 1

SNOWFLAKE_TIMESTAMP_BITS == 41

SNOWFLAKE_DATA_CENTER_ID_BITS == 5

SNOWFLAKE_MACHINE_ID_BITS == 5

SNOWFLAKE_SEQUENCE_BITS == 12

SNOWFLAKE_MAX_DATA_CENTER_ID == BitNot(ShiftLeft(UINT_FAST64_MAX, SNOWFLAKE_DATA_CENTER_ID_BITS))

SNOWFLAKE_MAX_MACHINE_ID == BitNot(ShiftLeft(UINT_FAST64_MAX, SNOWFLAKE_MACHINE_ID_BITS))

SNOWFLAKE_MAX_SEQUENCE == BitNot(ShiftLeft(UINT_FAST64_MAX, SNOWFLAKE_SEQUENCE_BITS))

\* The source writes the shifts with the names SEQUENCE_BITS, MACHINE_ID_BITS,
\* DATA_CENTER_ID_SHIFT and DATA_CENTER_ID_BITS (no SNOWFLAKE_ prefix, defined
\* nowhere); they are read as the constants above.
Mutant_MACHINE_ID_SHIFT == SNOWFLAKE_SEQUENCE_BITS - 1

SNOWFLAKE_MACHINE_ID_SHIFT == SNOWFLAKE_SEQUENCE_BITS

SNOWFLAKE_DATA_CENTER_ID_SHIFT == SNOWFLAKE_SEQUENCE_BITS + SNOWFLAKE_MACHINE_ID_BITS

SNOWFLAKE_TIMESTAMP_SHIFT == SNOWFLAKE_DATA_CENTER_ID_SHIFT + SNOWFLAKE_DATA_CENTER_ID_BITS

\* the mask of the timestamp field, built the way the source builds its masks
MaxTimestamp == BitNot(ShiftLeft(UINT_FAST64_MAX, SNOWFLAKE_TIMESTAMP_BITS))

(***************************************************************************)
(* Bit-layout codec.  The repository has no encode or decode routine; the  *)
(* two are taken from the specification's contract, over the constants of  *)
(* the source.                                                             *)
(***************************************************************************)
encode(timestamp_offset, data_center_id, machine_id, sequence) ==
    BitOr(BitOr(ShiftLeft(timestamp_offset, SNOWFLAKE_TIMESTAMP_SHIFT),
                ShiftLeft(data_center_id, SNOWFLAKE_DATA_CENTER_ID_SHIFT)),
          BitOr(ShiftLeft(machine_id, SNOWFLAKE_MACHINE_ID_SHIFT), sequence))

decode(id) ==
    [timestamp_offset |-> BitAnd(ShiftRight(id, SNOWFLAKE_TIMESTAMP_SHIFT), MaxTimestamp),
     data_center_id   |-> BitAnd(ShiftRight(id, SNOWFLAKE_DATA_CENTER_ID_SHIFT),
                                 SNOWFLAKE_MAX_DATA_CENTER_ID),
     machine_id       |-> BitAnd(ShiftRight(id, SNOWFLAKE_MACHINE_ID_SHIFT),
                                 SNOWFLAKE_MAX_MACHINE_ID),
     sequence         |-> BitAnd(id, SNOWFLAKE_MAX_SEQUENCE)]

(***************************************************************************)
(* Clock source: gettimeofday and snowflake_get_timestamp                  *)
(* (snowflake.c:138-148)                                                   *)
(***************************************************************************)
\* readings of gettimeofday the model's wall clock moves through, in time order:
\* the last microsecond before the epoch (a host whose clock is set before
\* 2020), epoch + 100 ms, a later instant of the same millisecond, epoch + 101 ms
ClockReadings ==
    << [tv_sec |-> 1577836799, tv_usec |-> 999999],
       [tv_sec |-> 1577836800, tv_usec |-> 100000],
       [tv_sec |-> 1577836800, tv_usec |-> 100999],
       [tv_sec |-> 1577836800, tv_usec |-> 101000] >>

\* as snowflake_get_timestamp, with the microseconds added undivided
Mutant_timestamp_no_division(tv) ==
    Add(Mul(ToU64(tv.tv_sec), ToU64(1000)), ToU64(tv.tv_usec))

\* (uint_fast64_t)(tv.tv_sec) * 1000 + (uint_fast64_t)(tv.tv_usec) / 1000
snowflake_get_timestamp(tv) ==
    Add(Mul(ToU64(tv.tv_sec), ToU64(1000)), ToU64(tv.tv_usec \div 1000))

(***************************************************************************)
(* Bounds of the model                                                     *)
(***************************************************************************)
\* threads calling snowflake_next_id on the one generator
NumThreads == 2

\* calls of snowflake_next_id in one run, over all threads
MaxCalls == 3

Threads == 1 .. NumThreads

\* arguments the callers pass to snowflake_construct, <<data_center_id, machine_id>>:
\* the ends of [0,31], the pair of the concrete scenario, and 32 on either side
ConstructArgs ==
    { <<ToU64(0), ToU64(0)>>, <<ToU64(1), ToU64(1)>>, <<ToU64(31), ToU64(31)>>,
      <<ToU64(32), ToU64(1)>>, <<ToU64(1), ToU64(32)>> }

\* Values snowflake_next_id can hand back.  Its body ends without a return
\* statement, so the value the caller receives is indeterminate: 0 (what is
\* left in the return register by pthread_mutex_unlock), or anything else.
IndeterminateValues == {ToU64(0), ToU64(419565568), ToU64(419565569)}

\* readings of gettimeofday given to the clock reader on its own
TvSecs == {0, 1, 1577836799, 1577836800, 1700000000, 2147483647}

TvUsecs == {0, 1, 999, 1000, 1001, 100000, 100999, 500500, 999000, 999999}

\* inputs of the codec
CodecTimestamps == {ToU64(0), ToU64(1), ToU64(100), ShiftLeft(ToU64(1), 40), MaxTimestamp}

CodecNodeIds == {ToU64(0), ToU64(1), ToU64(31)}

CodecSequences == {ToU64(0), ToU64(1), ToU64(4095)}

(***************************************************************************)
(* State                                                                   *)
(***************************************************************************)
VARIABLES
    alive,        \* "none" before snowflake_construct, "live", "destroyed"
    snowflake,    \* the snowflake_t the constructor returned
    mutex,        \* *snowflake->mutex: 0 unlocked, or the thread that owns it
    pc,           \* per thread: "idle", "lock" (at line 126), "unlock" (at line 128)
    clock,        \* the wall clock: an index into ClockReadings
    t_read,       \* history, per thread: the millisecond at its lock acquisition
    returned,     \* history: the calls that returned, in lock-acquisition order, each
                  \* with the millisecond t at its lock acquisition, what it returned,
                  \* and last_timestamp and sequence as it left them
    ncalls,       \* calls of snowflake_next_id made so far
    codec,        \* the codec run: its inputs, the id, the decoded fields
    ts            \* the clock-reader run: the reading of gettimeofday, the result

vars == <<alive, snowflake, mutex, pc, clock, t_read, returned, ncalls, codec, ts>>

genvars == <<alive, snowflake, mutex, pc, clock, t_read, returned, ncalls>>

NoGenerator == [data_center_id |-> {}, machine_id |-> {}, sequence |-> {}, last_timestamp |-> {}]

CodecIdle == [pc |-> "idle"]

ClockReaderIdle == [pc |-> "none"]

\* the millisecond snowflake_get_timestamp computes from each reading
ClockMillis == [i \in 1 .. Len(ClockReadings) |-> snowflake_get_timestamp(ClockReadings[i])]

now == ClockMillis[clock]

Init ==
    /\ alive = "none"
    /\ snowflake = NoGenerator
    /\ mutex = 0
    /\ pc = [t \in Threads |-> "idle"]
    /\ clock = 1
    /\ t_read = [t \in Threads |-> {}]
    /\ returned = << >>
    /\ ncalls = 0
    /\ codec = CodecIdle
    /\ ts = ClockReaderIdle

(***************************************************************************)
(* snowflake_construct (snowflake.c:92-109): no check of its arguments.    *)
(* Allocation is taken to succeed.                                         *)
(***************************************************************************)
snowflake_construct(data_center_id, machine_id) ==
    /\ alive = "none"
    /\ snowflake' = [data_center_id |-> data_center_id,
                     machine_id     |-> machine_id,
                     sequence       |-> ToU64(0),
                     last_timestamp |-> ToU64(0)]
    /\ mutex' = 0
    /\ alive' = "live"
    /\ UNCHANGED <<pc, clock, t_read, returned, ncalls, codec, ts>>

(***************************************************************************)
(* snowflake_destruct (snowflake.c:111-121); the caller destroys the       *)
(* generator when no call of snowflake_next_id is in progress.             *)
(***************************************************************************)
snowflake_destruct ==
    /\ alive = "live"
    /\ \A t \in Threads : pc[t] = "idle"
    /\ alive' = "destroyed"
    /\ UNCHANGED <<snowflake, mutex, pc, clock, t_read, returned, ncalls, codec, ts>>

(***************************************************************************)
(* snowflake_next_id (snowflake.c:123-130)                                 *)
(***************************************************************************)
\* a thread enters snowflake_next_id and reaches pthread_mutex_lock
next_id_enter(t) ==
    /\ alive = "live"
    /\ pc[t] = "idle"
    /\ ncalls' = ncalls + 1
    /\ pc' = [pc EXCEPT ![t] = "lock"]
    /\ UNCHANGED <<alive, snowflake, mutex, clock, t_read, returned, codec, ts>>

next_id_call(t) ==
    /\ ncalls < MaxCalls
    /\ next_id_enter(t)

Mutant_mutex_available(m) == TRUE

\* pthread_mutex_lock returns only when the mutex is not owned
mutex_available(m) == m = 0

\* line 126: pthread_mutex_lock(snowflake -> mutex)
next_id_lock(t) ==
    /\ pc[t] = "lock"
    /\ mutex_available(mutex)
    /\ mutex' = t
    /\ pc' = [pc EXCEPT ![t] = "unlock"]
    /\ t_read' = [t_read EXCEPT ![t] = now]
    /\ UNCHANGED <<alive, snowflake, clock, returned, ncalls, codec, ts>>

\* history: the call of thread t returns value
next_id_return(t, value) ==
    returned' = Append(returned, [t |-> t_read[t], result |-> "id", id |-> value,
                                  last_timestamp |-> snowflake.last_timestamp,
                                  sequence |-> snowflake.sequence])

\* line 128: pthread_mutex_unlock(snowflake -> mutex), then line 130: the end of
\* the function
next_id_release(t) ==
    /\ pc[t] = "unlock"
    /\ mutex' = 0
    /\ pc' = [pc EXCEPT ![t] = "idle"]
    /\ t_read' = [t_read EXCEPT ![t] = {}]
    /\ UNCHANGED <<alive, snowflake, clock, ncalls, codec, ts>>

\* as next_id_unlock, with the value stored into the generator's machine_id
Mutant_unlock_writes_config(t, value) ==
    /\ pc[t] = "unlock"
    /\ mutex' = 0
    /\ pc' = [pc EXCEPT ![t] = "idle"]
    /\ t_read' = [t_read EXCEPT ![t] = {}]
    /\ snowflake' = [snowflake EXCEPT !.machine_id = value]
    /\ next_id_return(t, value)
    /\ UNCHANGED <<alive, clock, ncalls, codec, ts>>

\* as next_id_unlock, leaving the function without pthread_mutex_unlock
Mutant_unlock_keeps_mutex(t, value) ==
    /\ pc[t] = "unlock"
    /\ mutex' = mutex
    /\ pc' = [pc EXCEPT ![t] = "idle"]
    /\ t_read' = [t_read EXCEPT ![t] = {}]
    /\ next_id_return(t, value)
    /\ UNCHANGED <<alive, snowflake, clock, ncalls, codec, ts>>

\* lines 128-130: the unlock, and the end of the function without a return
\* statement; the caller receives value
next_id_unlock(t, value) ==
    /\ next_id_release(t)
    /\ next_id_return(t, value)

(***************************************************************************)
(* The wall clock (the environment of gettimeofday)                        *)
(***************************************************************************)
clock_advance ==
    /\ clock < Len(ClockReadings)
    /\ clock' = clock + 1
    /\ UNCHANGED <<alive, snowflake, mutex, pc, t_read, returned, ncalls, codec, ts>>

clock_regress ==
    /\ clock > 1
    /\ clock' = clock - 1
    /\ UNCHANGED <<alive, snowflake, mutex, pc, t_read, returned, ncalls, codec, ts>>

Next ==
    \/ \E args \in ConstructArgs : snowflake_construct(args[1], args[2])
    \/ snowflake_destruct
    \/ \E t \in Threads : next_id_call(t)
    \/ \E t \in Threads : next_id_lock(t)
    \/ \E t \in Threads, v \in IndeterminateValues : next_id_unlock(t, v)
    \/ clock_advance
    \/ clock_regress

Spec == Init /\ [][Next]_vars

(***************************************************************************)
(* The codec on its own: inputs drawn from the bounded sets, then encode,  *)
(* then decode.                                                            *)
(***************************************************************************)
CodecInit ==
    /\ alive = "none"
    /\ snowflake = NoGenerator
    /\ mutex = 0
    /\ pc = [t \in Threads |-> "idle"]
    /\ clock = 1
    /\ t_read = [t \in Threads |-> {}]
    /\ returned = << >>
    /\ ncalls = 0
    /\ \E tso \in CodecTimestamps, dc \in CodecNodeIds, m \in CodecNodeIds, seq \in CodecSequences :
           codec = [pc |-> "input", timestamp_offset |-> tso, data_center_id |-> dc,
                    machine_id |-> m, sequence |-> seq]
    /\ ts = ClockReaderIdle

codec_encode ==
    /\ codec.pc = "input"
    /\ codec' = [pc |-> "encoded", in |-> codec,
                 id |-> encode(codec.timestamp_offset, codec.data_center_id,
                               codec.machine_id, codec.sequence)]
    /\ UNCHANGED <<genvars, ts>>

codec_decode ==
    /\ codec.pc = "encoded"
    /\ codec' = [pc |-> "decoded", in |-> codec.in, id |-> codec.id, out |-> decode(codec.id)]
    /\ UNCHANGED <<genvars, ts>>

CodecNext == codec_encode \/ codec_decode

SpecCodec == CodecInit /\ [][CodecNext]_vars

\* the callers are scheduled fairly: a caller that can acquire the mutex again
\* and again does acquire it, and a caller inside the function runs on
SpecFair ==
    /\ Spec
    /\ \A t \in Threads :
           /\ SF_vars(next_id_lock(t))
           /\ WF_vars(\E v \in IndeterminateValues : next_id_unlock(t, v))

(***************************************************************************)
(* One millisecond under load: a generator built with <<1, 1>>, the wall   *)
(* clock standing at epoch + 100 ms, and more calls of snowflake_next_id   *)
(* than one millisecond has sequence values.  The calls are counted, not   *)
(* recorded.                                                               *)
(***************************************************************************)
\* the number of sequence values of one millisecond
SequenceSpace == 2 ^ SNOWFLAKE_SEQUENCE_BITS

\* calls made in the millisecond: the sequence space and one more per thread
RolloverCalls == SequenceSpace + NumThreads

RolloverInit ==
    /\ alive = "live"
    /\ snowflake = [data_center_id |-> ToU64(1), machine_id |-> ToU64(1),
                    sequence |-> ToU64(0), last_timestamp |-> ToU64(0)]
    /\ mutex = 0
    /\ pc = [t \in Threads |-> "idle"]
    /\ clock = 2
    /\ t_read = [t \in Threads |-> {}]
    /\ returned = << >>
    /\ ncalls = 0
    /\ codec = CodecIdle
    /\ ts = ClockReaderIdle

rollover_call(t) ==
    /\ ncalls < RolloverCalls
    /\ next_id_enter(t)

rollover_unlock(t) ==
    /\ next_id_release(t)
    /\ UNCHANGED returned

RolloverNext ==
    \/ \E t \in Threads : rollover_call(t)
    \/ \E t \in Threads : next_id_lock(t)
    \/ \E t \in Threads : rollover_unlock(t)

SpecRollover == RolloverInit /\ [][RolloverNext]_vars

\* calls that have acquired the lock, and calls that have returned
LockAcquisitions == ncalls - Cardinality({t \in Threads : pc[t] = "lock"})

CallsReturned == ncalls - Cardinality({t \in Threads : pc[t] # "idle"})

(***************************************************************************)
(* The clock reader on its own: gettimeofday gives a reading, the reader   *)
(* is called, the reading changes, the reader is called again.             *)
(***************************************************************************)
ClockReaderInit ==
    /\ alive = "none"
    /\ snowflake = NoGenerator
    /\ mutex = 0
    /\ pc = [t \in Threads |-> "idle"]
    /\ clock = 1
    /\ t_read = [t \in Threads |-> {}]
    /\ returned = << >>
    /\ ncalls = 0
    /\ codec = CodecIdle
    /\ \E sec \in TvSecs, usec \in TvUsecs :
           ts = [pc |-> "idle", tv |-> [tv_sec |-> sec, tv_usec |-> usec], again |-> FALSE]

\* a call of snowflake_get_timestamp: gettimeofday(&tv, NULL), then the result
get_timestamp_call ==
    /\ ts.pc = "idle"
    /\ ts' = [pc |-> "done", tv |-> ts.tv, again |-> ts.again,
              ms |-> snowflake_get_timestamp(ts.tv)]
    /\ UNCHANGED <<genvars, codec>>

\* the wall clock moves on within the second, before the next call
gettimeofday_moves ==
    /\ ts.pc = "done"
    /\ \E usec \in TvUsecs :
           /\ usec > ts.tv.tv_usec
           /\ ts' = [pc |-> "idle", tv |-> [tv_sec |-> ts.tv.tv_sec, tv_usec |-> usec],
                     again |-> TRUE]
    /\ UNCHANGED <<genvars, codec>>

ClockReaderNext == get_timestamp_call \/ gettimeofday_moves

SpecClockReader == ClockReaderInit /\ [][ClockReaderNext]_vars

(***************************************************************************)
(* Properties                                                              *)
(***************************************************************************)
Calls == 1 .. Len(returned)

\* the calls so far read a non-decreasing clock
ClockNonDecreasing ==
    \A i \in Calls : i > 1 => LessEq(returned[i - 1].t, returned[i].t)

\* the latest call before call i that returned an ID (0 when there is none)
LastIssuedBefore(i) ==
    IF \E j \in 1 .. (i - 1) : returned[j].result = "id"
    THEN CHOOSE j \in 1 .. (i - 1) :
             /\ returned[j].result = "id"
             /\ \A k \in (j + 1) .. (i - 1) : returned[k].result # "id"
    ELSE 0

\* C1: under a non-decreasing clock the IDs returned by one generator, in
\* the order the lock was acquired, are strictly increasing as unsigned
\* 64-bit values.
C1_StrictlyIncreasing ==
    ClockNonDecreasing =>
        \A i \in Calls : i > 1 => Less(returned[i - 1].id, returned[i].id)

\* C2: the values returned by all the calls of all the threads on one
\* generator are pairwise distinct.
C2_PairwiseDistinct ==
    \A i \in Calls, j \in Calls : i # j => returned[i].id # returned[j].id

\* C3: a call that reads a clock value below last_timestamp, the timestamp
\* of the last ID generated, fails with ClockRegressionError and leaves
\* last_timestamp and sequence as they were.
C3_RegressionRejected ==
    \A i \in Calls :
        LET j == LastIssuedBefore(i)
        IN  (j # 0 /\ Less(returned[i].t, returned[j].t)) =>
                /\ returned[i].result = "ClockRegressionError"
                /\ returned[i].last_timestamp = returned[j].last_timestamp
                /\ returned[i].sequence = returned[j].sequence

\* C4: the calls made while the clock stays at one millisecond return the
\* sequence values 0, 1, ..., 4095 in that order, and no 4097th call
\* returns in that millisecond.
C4_SequenceInOrder ==
    \A i \in Calls :
        (\A j \in 1 .. i : returned[j].t = returned[1].t) =>
            /\ i <= 4096
            /\ returned[i].result = "id"
            /\ decode(returned[i].id).sequence = ToU64(i - 1)

\* C5: snowflake_construct produces a generator only when data_center_id and
\* machine_id are both in [0,31].
C5_ConstructValidates ==
    alive # "none" =>
        /\ LessEq(snowflake.data_center_id, SNOWFLAKE_MAX_DATA_CENTER_ID)
        /\ LessEq(snowflake.machine_id, SNOWFLAKE_MAX_MACHINE_ID)

C7_ConcreteScenario ==
    LET at == Add(SNOWFLAKE_EPOCH, ToU64(100))
    IN  (/\ snowflake.data_center_id = ToU64(1)
         /\ snowflake.machine_id = ToU64(1)
         /\ Len(returned) >= 1
         /\ returned[1].t = at) =>
            /\ returned[1].id = ToU64(419565568)
            /\ (Len(returned) >= 2 /\ returned[2].t = at) =>
                   returned[2].id = ToU64(419565569)

C8_InCriticalSection == {t \in Threads : pc[t] = "unlock"}

C8_Exclusive ==
    /\ Cardinality(C8_InCriticalSection) <= 1
    /\ \A t \in C8_InCriticalSection : mutex = t
    /\ (C8_InCriticalSection = {} /\ alive = "live") => mutex = 0

\* C8: at most one thread is between lock acquisition and lock release and
\* that thread owns the mutex; last_timestamp and sequence are never changed
\* by a step taken while some thread is inside snowflake_next_id without
\* owning the mutex.
C8_MutualExclusion ==
    /\ []C8_Exclusive
    /\ [][(\/ snowflake.last_timestamp' # snowflake.last_timestamp
           \/ snowflake.sequence' # snowflake.sequence) =>
              \A t \in Threads : pc[t] = "idle" \/ mutex = t]_vars

\* one thread is inside the critical section while the other waits at the lock
C8_Witness ==
    \E t \in Threads, u \in Threads : pc[t] = "unlock" /\ pc[u] = "lock"

\* C9: every ID returned equals encode(last_timestamp - epoch,
\* data_center_id, machine_id, sequence) on the state the call leaves, with
\* the shifts 12, 17 and 22.
C9_IdIsEncoding ==
    /\ SNOWFLAKE_MACHINE_ID_SHIFT = 12
    /\ SNOWFLAKE_DATA_CENTER_ID_SHIFT = 17
    /\ SNOWFLAKE_TIMESTAMP_SHIFT = 22
    /\ \A i \in Calls :
           returned[i].result = "id" =>
               returned[i].id = encode(Sub(returned[i].last_timestamp, SNOWFLAKE_EPOCH),
                                       snowflake.data_center_id, snowflake.machine_id,
                                       returned[i].sequence)

\* C10: in every call of snowflake_next_id the values to encode fit their
\* fields: the clock value minus the epoch is in [0, 2^41-1],
\* data_center_id and machine_id are in [0,31], sequence is in [0,4095].
C10_EncodeArgumentsFit ==
    \A t \in Threads :
        pc[t] = "unlock" =>
            /\ LessEq(Sub(t_read[t], SNOWFLAKE_EPOCH), MaxTimestamp)
            /\ LessEq(snowflake.data_center_id, SNOWFLAKE_MAX_DATA_CENTER_ID)
            /\ LessEq(snowflake.machine_id, SNOWFLAKE_MAX_MACHINE_ID)
            /\ LessEq(snowflake.sequence, SNOWFLAKE_MAX_SEQUENCE)

\* C11: a constructed generator has sequence = 0 and last_timestamp = 0, and
\* its first call returns an ID with sequence 0 and leaves last_timestamp at
\* the clock value it read.
C11_FirstCall ==
    /\ (alive = "live" /\ ncalls = 0) =>
           /\ snowflake.sequence = ToU64(0)
           /\ snowflake.last_timestamp = ToU64(0)
    /\ Len(returned) >= 1 =>
           /\ returned[1].result = "id"
           /\ returned[1].sequence = ToU64(0)
           /\ decode(returned[1].id).sequence = ToU64(0)
           /\ returned[1].last_timestamp = returned[1].t

\* C12: sequence is always in [0,4095]; within one millisecond it advances
\* by exactly 1 per successful call; the ID of the first successful call of
\* a millisecond has sequence 0.
C12_SequenceRange ==
    /\ alive # "none" => LessEq(snowflake.sequence, SNOWFLAKE_MAX_SEQUENCE)
    /\ \A i \in Calls :
           /\ LessEq(returned[i].sequence, SNOWFLAKE_MAX_SEQUENCE)
           /\ (i > 1 /\ returned[i].result = "id" /\ returned[i - 1].result = "id"
                     /\ returned[i].t = returned[i - 1].t) =>
                  returned[i].sequence = Add(returned[i - 1].sequence, ToU64(1))
           /\ (returned[i].result = "id"
                 /\ (i = 1 \/ Less(returned[LastIssuedBefore(i)].t, returned[i].t))) =>
                  decode(returned[i].id).sequence = ToU64(0)

\* C13: under a non-decreasing clock last_timestamp never decreases, and
\* after each successful call it is the clock value encoded in the ID the
\* call returned.
C13_LastTimestamp ==
    ClockNonDecreasing =>
        \A i \in Calls :
            /\ i > 1 => LessEq(returned[i - 1].last_timestamp, returned[i].last_timestamp)
            /\ returned[i].result = "id" =>
                   /\ returned[i].last_timestamp = returned[i].t
                   /\ decode(returned[i].id).timestamp_offset =
                          Sub(returned[i].last_timestamp, SNOWFLAKE_EPOCH)

\* C16: no step taken on a live generator changes its data_center_id or its
\* machine_id.
C16_ConfigImmutable ==
    [][alive = "live" =>
          /\ snowflake.data_center_id' = snowflake.data_center_id
          /\ snowflake.machine_id' = snowflake.machine_id]_vars

\* calls have returned on a generator that still holds what it was built with
C16_Witness ==
    /\ Len(returned) >= 2
    /\ snowflake.data_center_id = ToU64(31)
    /\ snowflake.machine_id = ToU64(31)

\* C17: whatever the clock does, the IDs of the successful calls are strictly
\* increasing in lock-acquisition order, so none is returned twice.
C17_IncreasingUnderAnyClock ==
    \A i \in Calls, j \in Calls :
        (i < j /\ returned[i].result = "id" /\ returned[j].result = "id") =>
            Less(returned[i].id, returned[j].id)

\* C18: a caller that has returned from snowflake_next_id does not own the
\* mutex, and whenever callers wait at the lock the mutex is free or owned by
\* a caller that is still inside the critical section.
C18_LockReleased ==
    /\ \A t \in Threads : pc[t] = "idle" => mutex # t
    /\ (\E t \in Threads : pc[t] = "lock") =>
           \/ mutex = 0
           \/ \E u \in Threads : pc[u] = "unlock" /\ mutex = u

\* one caller has returned and another has acquired the lock after it
C18_Witness ==
    /\ Len(returned) >= 1
    /\ \E t \in Threads, u \in Threads : pc[t] = "idle" /\ pc[u] = "unlock" /\ mutex = u

\* C19: the value snowflake_get_timestamp returns is the number of whole
\* milliseconds in the reading gettimeofday gave to that call: ms * 1000 <=
\* tv_sec * 1000000 + tv_usec < ms * 1000 + 1000.
C19_WholeMilliseconds ==
    ts.pc = "done" =>
        LET us == Add(Mul(ToU64(ts.tv.tv_sec), ToU64(1000000)), ToU64(ts.tv.tv_usec))
            lo == Mul(ts.ms, ToU64(1000))
        IN  /\ LessEq(lo, us)
            /\ Less(us, Add(lo, ToU64(1000)))

\* a second call, after the clock moved to 999 microseconds short of the next
\* millisecond, returned epoch + 100
C19_Witness ==
    /\ ts.pc = "done"
    /\ ts.again
    /\ ts.tv = [tv_sec |-> 1577836800, tv_usec |-> 100999]
    /\ ts.ms = Add(SNOWFLAKE_EPOCH, ToU64(100))

\* C14: the caller that finds the sequence values of the millisecond used up
\* waits with the lock held: while the clock stands at that millisecond, no
\* caller after it acquires the lock.
C14_WaitHoldsLock ==
    LockAcquisitions <= SequenceSpace + 1

\* under fair scheduling every call of snowflake_next_id returns (the first
\* half of C15, checked under SpecFair)
EveryCallReturns ==
    \A t \in Threads : (pc[t] # "idle") ~> (pc[t] = "idle")

\* C15: the wait for the next millisecond ends only when the clock has passed
\* last_timestamp: while the clock stands at one millisecond, the call that
\* finds its sequence values used up does not return, so at most 4096 calls
\* return in it.
C15_ExhaustedCallWaits ==
    CallsReturned <= SequenceSpace

====
